---- MODULE Spec2Model ----
(***************************************************************************)
(* Model of FineTune_Dino2/datasets.py: file discovery (get_images), the   *)
(* mask binarization and augmentation pipeline of                          *)
(* SegmentationDataset.__getitem__, collate_fn, and the two DataLoaders    *)
(* built by get_data_loaders (8 worker processes each).                    *)
(*                                                                         *)
(* The module holds several specifications over one set of variables:      *)
(*   SpecMask     lines 94-100 of __getitem__ (read, cvtColor, binarize)   *)
(*   SpecTfm      train_transforms / valid_transforms, on array shapes     *)
(*   SpecCollate  collate_fn on arbitrary sample sequences                 *)
(*   SpecFiles    get_images on a directory tree                           *)
(*   SpecLoader   get_images .. get_data_loaders and loader traversals     *)
(* A specification leaves the variables of the other parts at Idle.        *)
(***************************************************************************)
EXTENDS Integers, Sequences, FiniteSets, TLC

VARIABLES
    \* ---- mask binarization (SegmentationDataset.__getitem__, 94-100)
    pcB,            \* "file" | "decoded" | "binarized"
    maskFile,       \* the mask file's pixels, BGR as cv2.imread returns them
    decoded,        \* mask after cvtColor(BGR2RGB).astype('float32')
    mask,           \* the array `mask` after the binarization lines
    \* ---- augmentation pipelines (train_transforms, valid_transforms)
    pipeline,       \* "train" | "valid"
    img_size,       \* <<width, height>>
    step,           \* index of the next transform of the Compose list
    imageShape,     \* shape of the image array, <<rows, cols, channels>> until transposed
    maskShape,      \* shape of the mask array, <<rows, cols, channels>> until mapped to labels
    geom,           \* geometric parameters drawn so far: [flipped, angle]
    \* ---- collate_fn
    inputs,         \* the list handed to collate_fn
    batch,          \* its outcome: Unset before the call, then Return or Raise
    \* ---- get_images
    fs,             \* directory role -> Missing or the set of entry names
    pcG,            \* position in get_images / the caller's setup code
    paths,          \* directory role -> list of paths (get_images' four locals)
    ret,            \* the 4-tuple get_images returned, <<>> before it returns
    \* ---- datasets and loaders
    datasets,       \* split -> [image_paths, mask_paths], or Idle
    batch_size,
    loaders,        \* "none" | "ready" | "ValueError"
    \* ---- one traversal of a loader (_MultiProcessingDataLoaderIter)
    cur,            \* the split whose loader is being traversed, or "none"
    status,         \* "idle" | "iterating" | "exhausted" | "raised"
    raised,         \* the exception that ended the traversal, or [kind |-> "none"]
    requested,      \* batches of indices sent to the workers so far, by idx
    sampler_iter,   \* batches of indices the batch sampler has yet to yield
    send_idx,
    rcvd_idx,
    tasks_outstanding,
    index_queues,   \* worker -> queue of <<idx, indices>>
    data_queue,     \* queue of [idx, data] shared by the workers
    task_info,      \* set of [idx, data] received out of order
    delivered,      \* batches returned to the caller in this traversal
    attempts        \* dataset index -> number of __getitem__ calls

maskVars    == <<pcB, maskFile, decoded, mask>>
tfmVars     == <<pipeline, img_size, step, imageShape, maskShape, geom>>
collateVars == <<inputs, batch>>
fileVars    == <<fs, pcG, paths, ret>>
dsVars      == <<datasets, batch_size, loaders>>
travVars    == <<cur, status, raised, requested, sampler_iter, send_idx, rcvd_idx,
                 tasks_outstanding, index_queues,
                 data_queue, task_info, delivered, attempts>>
vars == <<maskVars, tfmVars, collateVars, fileVars, dsVars, travVars>>

Idle == "idle"

IdleMask    == pcB = Idle /\ maskFile = Idle /\ decoded = Idle /\ mask = Idle
IdleTfm     == /\ pipeline = Idle /\ img_size = Idle /\ step = 0
               /\ imageShape = Idle /\ maskShape = Idle /\ geom = Idle
IdleCollate == inputs = <<>> /\ batch = [kind |-> Idle]
IdleFiles   == fs = Idle /\ pcG = Idle /\ paths = Idle /\ ret = <<>>
IdleLoader  == /\ datasets = Idle /\ batch_size = 0 /\ loaders = "none"
               /\ cur = "none" /\ status = Idle /\ raised = [kind |-> "none"]
               /\ requested = <<>> /\ sampler_iter = <<>>
               /\ send_idx = 0 /\ rcvd_idx = 0 /\ tasks_outstanding = 0
               /\ index_queues = <<>>
               /\ data_queue = <<>> /\ task_info = {} /\ delivered = <<>>
               /\ attempts = <<>>

(***************************************************************************)
(* Bounds of the model.                                                    *)
(***************************************************************************)
NPix     == 2   \* pixels of the modelled mask
MaxDim   == 7   \* largest input height / width
MaxSize  == 2   \* largest target width / height
MaxK     == 3   \* longest list handed to collate_fn directly
MaxFiles == 2   \* most entries of one directory (SpecFiles)
MaxBatches == 2 \* most batches of one loader traversal
MaxSamples == MaxBatches + 1   \* most images of one split (SpecLoader)

(***************************************************************************)
(* Mask binarization.  A mask is an array of NPix pixels of 3 channels;    *)
(* cv2.imread gives uint8 values, so channel values are in 0..255.         *)
(***************************************************************************)
Channels    == 1..3
PixelValues == {0, 1, 128, 255}
Masks       == [1..NPix -> [Channels -> PixelValues]]

\* cv2.cvtColor(mask, cv2.COLOR_BGR2RGB): the channel order is reversed.
CvtColor(m) == [p \in DOMAIN m |-> [c \in Channels |-> m[p][4 - c]]]

\* im = mask > 0 : an elementwise comparison, one boolean per channel value.
GreaterThanZero(m) == [p \in DOMAIN m |-> [c \in Channels |-> m[p][c] > 0]]

\* np.logical_not(im)
LogicalNot(im) == [p \in DOMAIN im |-> [c \in Channels |-> ~im[p][c]]]

\* mask[sel] = v : boolean-array assignment.
MaskedAssign(m, sel, v) ==
    [p \in DOMAIN m |-> [c \in Channels |-> IF sel[p][c] THEN v ELSE m[p][c]]]

\* A binarization that decides a whole pixel by one test over its channels.
BinarizePerPixel(m) ==
    [p \in DOMAIN m |->
        [c \in Channels |-> IF \E k \in Channels : m[p][k] > 0 THEN 255 ELSE 0]]

\* A binarization whose test is >= instead of >.
BinarizeGe(m) ==
    [p \in DOMAIN m |-> [c \in Channels |-> IF m[p][c] >= 0 THEN 255 ELSE 0]]

\* Lines 98-100.
Binarize(m) ==
    LET im == GreaterThanZero(m)
    IN  MaskedAssign(MaskedAssign(m, im, 255), LogicalNot(im), 0)

InitMask ==
    /\ pcB = "file"
    /\ maskFile \in Masks
    /\ decoded = Idle
    /\ mask = Idle
    /\ IdleTfm /\ IdleCollate /\ IdleFiles /\ IdleLoader

\* Lines 94-95.
ReadMask ==
    /\ pcB = "file"
    /\ decoded' = CvtColor(maskFile)
    /\ pcB' = "decoded"
    /\ UNCHANGED <<maskFile, mask, tfmVars, collateVars, fileVars, dsVars, travVars>>

\* Lines 98-100.
BinarizeMask ==
    /\ pcB = "decoded"
    /\ mask' = Binarize(decoded)
    /\ pcB' = "binarized"
    /\ UNCHANGED <<maskFile, decoded, tfmVars, collateVars, fileVars, dsVars, travVars>>

NextMask == ReadMask \/ BinarizeMask
SpecMask == InitMask /\ [][NextMask]_vars

IsBinary(m) == \A p \in DOMAIN m : \A c \in Channels : m[p][c] \in {0, 255}

\* C1 as stated: every output value is 0 or 255, a pixel that is 0 in all
\* three channels gives an all-0 pixel, and every other pixel gives an all-255
\* pixel (one test per pixel).
C1_PerPixelTest ==
    pcB = "binarized" =>
        /\ IsBinary(mask)
        /\ \A p \in 1..NPix :
              IF \A c \in Channels : decoded[p][c] = 0
              THEN \A c \in Channels : mask[p][c] = 0
              ELSE \A c \in Channels : mask[p][c] = 255

\* C1 amended: every output value is 0 or 255, and each channel value is
\* decided on its own: it is 255 exactly when that channel value of the
\* decoded mask is greater than 0, and 0 otherwise.
C1_PerChannelTest ==
    pcB = "binarized" =>
        /\ IsBinary(mask)
        /\ \A p \in 1..NPix : \A c \in Channels :
              mask[p][c] = (IF decoded[p][c] > 0 THEN 255 ELSE 0)

\* A binarized pixel that had a zero and a non-zero channel.
C1_Witness ==
    /\ pcB = "binarized"
    /\ \E p \in 1..NPix : \E c, k \in Channels :
          decoded[p][c] = 0 /\ decoded[p][k] = 128

\* C2: a mask whose values are all 0 or 255 is returned unchanged by the
\* binarization, and the binarization's result is a fixed point of it
\* (binarize(binarize(m)) = binarize(m)).
C2_Idempotent ==
    pcB = "binarized" =>
        /\ IsBinary(decoded) => mask = decoded
        /\ Binarize(mask) = mask
        /\ Binarize(Binarize(decoded)) = Binarize(decoded)

\* An already binary mask holding both values has been binarized.
C2_Witness ==
    /\ pcB = "binarized"
    /\ IsBinary(decoded)
    /\ \E p, q \in 1..NPix : \E c, k \in Channels :
          decoded[p][c] = 0 /\ decoded[q][k] = 255

(***************************************************************************)
(* Augmentation pipelines.  Arrays are modelled by their shapes            *)
(* <<rows, cols, channels>>; the geometric parameters drawn by the random  *)
(* transforms are kept in geom.  img_size is <<width, height>>.            *)
(***************************************************************************)
PadMargin   == 4
RotateLimit == 25

TrainCompose == <<"Resize", "PadIfNeeded", "HorizontalFlip",
                  "RandomBrightnessContrast", "Rotate", "Normalize">>
ValidCompose == <<"Resize", "PadIfNeeded", "Normalize">>

\* train_transforms(img_size) / valid_transforms(img_size): the Compose list.
Compose(p) == IF p = "train" THEN TrainCompose ELSE ValidCompose

\* Resize arguments with width and height exchanged.
ResizeArgsSwapped(size) == [height |-> size[1], width |-> size[2]]

\* A.Resize(img_size[1], img_size[0]): height = img_size[1], width = img_size[0].
ResizeArgs(size) == [height |-> size[2], width |-> size[1]]

\* A.PadIfNeeded(min_height=img_size[1]+4, min_width=img_size[0]+4).
PadArgs(size) == [min_height |-> size[2] + PadMargin, min_width |-> size[1] + PadMargin]

\* Resize: the output has exactly the requested rows and columns, whatever
\* the input's; the channels are kept.
Resize(shape, args) == <<args.height, args.width, shape[3]>>

\* PadIfNeeded, position='center': a side shorter than the minimum is padded
\* to it, the padding split between the two borders; a longer side is kept.
PadBefore(n, min) == IF n < min THEN (min - n) \div 2 ELSE 0
PadAfter(n, min)  == IF n < min THEN (min - n) - PadBefore(n, min) ELSE 0
PadIfNeeded(shape, args) ==
    << PadBefore(shape[1], args.min_height) + shape[1] + PadAfter(shape[1], args.min_height),
       PadBefore(shape[2], args.min_width) + shape[2] + PadAfter(shape[2], args.min_width),
       shape[3] >>

InputShapes == {<<r, c, 3>> : r \in 1..MaxDim, c \in 1..MaxDim}
ImgSizes    == (1..MaxSize) \X (1..MaxSize)

InitTfm ==
    /\ pipeline \in {"train", "valid"}
    /\ img_size \in ImgSizes
    /\ step = 1
    /\ imageShape \in InputShapes
    /\ maskShape \in InputShapes      \* is_check_shapes=False: the two may differ
    /\ geom = [flipped |-> FALSE, angle |-> 0]
    /\ IdleMask /\ IdleCollate /\ IdleFiles /\ IdleLoader

AtTransform(name) ==
    /\ pipeline \in {"train", "valid"}
    /\ step \in 1..Len(Compose(pipeline))
    /\ Compose(pipeline)[step] = name

TfmRest == <<maskVars, collateVars, fileVars, dsVars, travVars>>

\* Lines 33 and 56.
ApplyResize ==
    /\ AtTransform("Resize")
    /\ imageShape' = Resize(imageShape, ResizeArgs(img_size))
    /\ maskShape' = Resize(maskShape, ResizeArgs(img_size))
    /\ step' = step + 1
    /\ UNCHANGED <<pipeline, img_size, geom, TfmRest>>

\* Lines 34-40 and 57-63.
ApplyPadIfNeeded ==
    /\ AtTransform("PadIfNeeded")
    /\ imageShape' = PadIfNeeded(imageShape, PadArgs(img_size))
    /\ maskShape' = PadIfNeeded(maskShape, PadArgs(img_size))
    /\ step' = step + 1
    /\ UNCHANGED <<pipeline, img_size, geom, TfmRest>>

\* Line 41: with probability 0.5 the columns of image and mask are mirrored;
\* the shapes are kept.
ApplyHorizontalFlip ==
    /\ AtTransform("HorizontalFlip")
    /\ \E applied \in BOOLEAN : geom' = [geom EXCEPT !.flipped = applied]
    /\ step' = step + 1
    /\ UNCHANGED <<pipeline, img_size, imageShape, maskShape, TfmRest>>

\* Line 42: photometric, image only; no shape or geometry changes.
ApplyRandomBrightnessContrast ==
    /\ AtTransform("RandomBrightnessContrast")
    /\ step' = step + 1
    /\ UNCHANGED <<pipeline, img_size, imageShape, maskShape, geom, TfmRest>>

\* Line 43: rotation about the centre by an angle within the limit; the
\* output canvas is the input's.
ApplyRotate ==
    /\ AtTransform("Rotate")
    /\ \E a \in {-RotateLimit, 0, RotateLimit} : geom' = [geom EXCEPT !.angle = a]
    /\ step' = step + 1
    /\ UNCHANGED <<pipeline, img_size, imageShape, maskShape, TfmRest>>

\* Lines 44 and 64: per-channel arithmetic on the image.
ApplyNormalize ==
    /\ AtTransform("Normalize")
    /\ step' = step + 1
    /\ UNCHANGED <<pipeline, img_size, imageShape, maskShape, geom, TfmRest>>

\* Lines 107-113: get_label_mask gives a 2-D (H, W) label array, and the image
\* is transposed from (H, W, C) to (C, H, W).
LabelAndTranspose ==
    /\ pipeline \in {"train", "valid"}
    /\ step = Len(Compose(pipeline)) + 1
    /\ imageShape' = <<imageShape[3], imageShape[1], imageShape[2]>>
    /\ maskShape' = <<maskShape[1], maskShape[2]>>
    /\ step' = step + 1
    /\ UNCHANGED <<pipeline, img_size, geom, TfmRest>>

NextTfm ==
    \/ ApplyResize
    \/ ApplyPadIfNeeded
    \/ ApplyHorizontalFlip
    \/ ApplyRandomBrightnessContrast
    \/ ApplyRotate
    \/ ApplyNormalize
    \/ LabelAndTranspose
SpecTfm == InitTfm /\ [][NextTfm]_vars

Transformed == step = Len(Compose(pipeline)) + 1
Returned    == step = Len(Compose(pipeline)) + 2

\* C3: for every img_size = (width, height) and every input image and mask
\* shape, in both pipelines: after Resize image and mask are exactly
\* (height, width); after PadIfNeeded, and after every later transform up to
\* the pipeline's output, both are exactly (height + 4, width + 4); the
\* returned tensors are (C, height+4, width+4) and (height+4, width+4).
C3_FixedOutputSize ==
    pipeline \in {"train", "valid"} =>
        LET h == img_size[2]
            w == img_size[1]
        IN  /\ step = 2 =>
                /\ <<imageShape[1], imageShape[2]>> = <<h, w>>
                /\ <<maskShape[1], maskShape[2]>> = <<h, w>>
            /\ (step > 2 /\ ~Returned) =>
                /\ <<imageShape[1], imageShape[2]>> = <<h + 4, w + 4>>
                /\ <<maskShape[1], maskShape[2]>> = <<h + 4, w + 4>>
            /\ Returned =>
                /\ imageShape = <<3, h + 4, w + 4>>
                /\ maskShape = <<h + 4, w + 4>>

\* The training pipeline has run to its end, with a flip and a rotation
\* drawn, for a target that is not square.
C3_Witness ==
    /\ pipeline = "train"
    /\ Transformed
    /\ img_size[1] # img_size[2]
    /\ geom.flipped
    /\ geom.angle = RotateLimit

(***************************************************************************)
(* collate_fn.  A tensor is [shape, src]: its shape and the identity of    *)
(* its content (the file it was made from).  A sample is the pair          *)
(* <<image tensor, label tensor>> (i[0] and i[1] of the source).  A        *)
(* stacked tensor is [shape, rows], rows[j] being the content at           *)
(* position j of the new leading dimension.                                *)
(***************************************************************************)
Raise(exc)    == [kind |-> "raise", exc |-> exc]
Return(value) == [kind |-> "return", value |-> value]
Unset         == [kind |-> "unset"]

\* torch.stack(tensors, dim=0): fails on an empty list and on tensors of
\* different shapes; otherwise the tensors in list order along a new dim 0.
Stack(ts) ==
    IF Len(ts) = 0 \/ \E j \in 1..Len(ts) : ts[j].shape # ts[1].shape
    THEN Raise("RuntimeError")
    ELSE Return([shape |-> <<Len(ts)>> \o ts[1].shape,
                 rows  |-> [j \in 1..Len(ts) |-> ts[j].src]])

\* A collate_fn that takes both entries from i[0].
CollateFnSameField(inps) ==
    LET b0 == Stack([j \in 1..Len(inps) |-> inps[j][1]])
    IN  IF b0.kind = "raise" THEN b0
        ELSE Return([k \in {0, 1} |-> b0.value])

\* collate_fn, lines 115-120.
CollateFn(inps) ==
    LET b0 == Stack([j \in 1..Len(inps) |-> inps[j][1]])
        b1 == Stack([j \in 1..Len(inps) |-> inps[j][2]])
    IN  IF b0.kind = "raise" THEN b0
        ELSE IF b1.kind = "raise" THEN b1
        ELSE Return([k \in {0, 1} |-> IF k = 0 THEN b0.value ELSE b1.value])

ImageTensors == [shape : {<<3, 5, 5>>, <<3, 5, 6>>}, src : 1..2]
LabelTensors == [shape : {<<5, 5>>, <<5, 6>>}, src : 1..2]
Samples      == ImageTensors \X LabelTensors

InitCollate ==
    /\ inputs \in UNION {[1..k -> Samples] : k \in 0..MaxK}
    /\ batch = Unset
    /\ IdleMask /\ IdleTfm /\ IdleFiles /\ IdleLoader

\* A call collate_fn(inputs).
CallCollateFn ==
    /\ batch.kind = "unset"
    /\ batch' = CollateFn(inputs)
    /\ UNCHANGED <<inputs, maskVars, tfmVars, fileVars, dsVars, travVars>>

NextCollate == CallCollateFn
SpecCollate == InitCollate /\ [][NextCollate]_vars

SameShapes(inps) ==
    \A j \in 1..Len(inps) :
        inps[j][1].shape = inps[1][1].shape /\ inps[j][2].shape = inps[1][2].shape

\* C6: for K >= 1 samples whose images share one shape and whose labels share
\* one shape, collate_fn returns a mapping with exactly the keys 0 and 1,
\* entry 0 of shape (K,) + image shape, entry 1 of shape (K,) + label shape,
\* position j of entry 0 is the j-th image and position j of entry 1 the j-th
\* label; when the shapes of the items disagree the call raises.
C6_Collate ==
    (batch.kind \in {"return", "raise"} /\ Len(inputs) >= 1) =>
        LET K == Len(inputs)
        IN  IF SameShapes(inputs)
            THEN /\ batch.kind = "return"
                 /\ DOMAIN batch.value = {0, 1}
                 /\ batch.value[0].shape = <<K>> \o inputs[1][1].shape
                 /\ batch.value[1].shape = <<K>> \o inputs[1][2].shape
                 /\ Len(batch.value[0].shape) = 4
                 /\ Len(batch.value[1].shape) = 3
                 /\ \A j \in 1..K :
                       /\ batch.value[0].rows[j] = inputs[j][1].src
                       /\ batch.value[1].rows[j] = inputs[j][2].src
            ELSE batch.kind = "raise"

\* A batch of MaxK samples of one shape, with different contents, was stacked.
C6_Witness ==
    /\ batch.kind = "return"
    /\ Len(inputs) = MaxK
    /\ inputs[1][1].src # inputs[2][1].src
    /\ inputs[1][1].src # inputs[1][2].src

(***************************************************************************)
(* get_images.  A file name is the sequence of its character codes, so     *)
(* that Python's string order can be computed: "1" = <<49>>,               *)
(* "10" = <<49, 48>>, "2" = <<50>>, ".a" = <<46, 97>>.  A path is          *)
(* [dir, name]; its string is root_path/<dir>/<name>.                      *)
(***************************************************************************)
Dirs == <<"train_images", "train_masks", "valid_images", "valid_masks">>
DirSet == {Dirs[k] : k \in 1..4}

Missing      == [exists |-> FALSE, entries |-> {}]
Present(S)   == [exists |-> TRUE, entries |-> S]

\* The part of a path string after root_path: "/<dir>/" and the name.  The
\* directory names are abbreviated to two letters that keep their order:
\* "/ti/", "/tm/", "/vi/", "/vm/".
DirString(d) ==
    CASE d = "train_images" -> <<47, 116, 105, 47>>
      [] d = "train_masks"  -> <<47, 116, 109, 47>>
      [] d = "valid_images" -> <<47, 118, 105, 47>>
      [] d = "valid_masks"  -> <<47, 118, 109, 47>>
PathString(p) == DirString(p.dir) \o p.name

\* Python's str.__lt__: by code point, a proper prefix first.
RECURSIVE LexLess(_, _)
LexLess(a, b) ==
    IF a = <<>> THEN b # <<>>
    ELSE IF b = <<>> THEN FALSE
    ELSE IF a[1] # b[1] THEN a[1] < b[1]
    ELSE LexLess(Tail(a), Tail(b))

PathLess(p, q) == LexLess(PathString(p), PathString(q))

\* glob.glob(f"{root_path}/<dir>/*"): the entries of the directory whose names
\* do not start with "." (code 46); nothing, and no error, when the directory
\* (or the root) does not exist.
Glob(tree, d) ==
    IF tree[d].exists
    THEN {[dir |-> d, name |-> n] : n \in {m \in tree[d].entries : m[1] # 46}}
    ELSE {}

\* glob returns the matches in the directory's own (arbitrary) order.
Orderings(S) ==
    {l \in [1..Cardinality(S) -> S] : \A i, j \in 1..Cardinality(S) : i # j => l[i] # l[j]}

RECURSIVE Insert(_, _)
Insert(x, l) ==
    IF l = <<>> THEN <<x>>
    ELSE IF PathLess(x, l[1]) THEN <<x>> \o l
    ELSE <<l[1]>> \o Insert(x, Tail(l))

RECURSIVE Sorted(_)
Sorted(l) == IF l = <<>> THEN <<>> ELSE Insert(l[1], Sorted(Tail(l)))

\* A sort that leaves the list as glob returned it.
ListSortOmitted(l) == l

\* list.sort() on a list of path strings.
ListSort(l) == Sorted(l)

\* The directory globbed for each of the four lists (lines 14, 16, 18, 20).
GlobDir(d) == d

FileNames == {<<49>>, <<49, 48>>, <<50>>, <<46, 97>>}
DirStates(names, max) ==
    {Missing} \cup {Present(S) : S \in {T \in SUBSET names : Cardinality(T) <= max}}

FilesRest == <<maskVars, tfmVars, collateVars, dsVars, travVars>>

InitFiles ==
    /\ fs \in [DirSet -> DirStates(FileNames, MaxFiles)]
    /\ pcG = 1
    /\ paths = [d \in DirSet |-> <<>>]
    /\ ret = <<>>
    /\ IdleMask /\ IdleTfm /\ IdleCollate /\ IdleLoader

\* One glob.glob(...) and the .sort() of its result: lines 14-15, 16-17,
\* 18-19, 20-21 for k = 1..4.
GlobAndSort(k) ==
    /\ pcG = k
    /\ \E listing \in Orderings(Glob(fs, GlobDir(Dirs[k]))) :
          paths' = [paths EXCEPT ![Dirs[k]] = ListSort(listing)]
    /\ pcG' = k + 1
    /\ UNCHANGED <<fs, ret, FilesRest>>

GlobTrainImages == GlobAndSort(1)
GlobTrainMasks  == GlobAndSort(2)
GlobValidImages == GlobAndSort(3)
GlobValidMasks  == GlobAndSort(4)

\* Line 23.
ReturnImages ==
    /\ pcG = 5
    /\ ret' = <<paths["train_images"], paths["train_masks"],
                paths["valid_images"], paths["valid_masks"]>>
    /\ pcG' = 6
    /\ UNCHANGED <<fs, paths, FilesRest>>

NextFiles ==
    \/ GlobTrainImages
    \/ GlobTrainMasks
    \/ GlobValidImages
    \/ GlobValidMasks
    \/ ReturnImages
SpecFiles == InitFiles /\ [][NextFiles]_vars

\* The entries of a directory that the pattern "*" matches.
Matching(d) == {n \in fs[d].entries : Head(n) # 46}

\* C7: when the four subdirectories exist, get_images returns the four lists
\* in the order train images, train masks, valid images, valid masks; each is
\* strictly ascending by path string, holds exactly the paths of the entries
\* matched in its own subdirectory, and is as long as their number.
C7_SortedLists ==
    (pcG = 6 /\ \A d \in DirSet : fs[d].exists) =>
        /\ Len(ret) = 4
        /\ \A k \in 1..4 :
              /\ \A i \in 1..(Len(ret[k]) - 1) :
                    LexLess(PathString(ret[k][i]), PathString(ret[k][i + 1]))
              /\ {ret[k][i] : i \in 1..Len(ret[k])}
                    = {[dir |-> Dirs[k], name |-> n] : n \in Matching(Dirs[k])}
              /\ Len(ret[k]) = Cardinality(Matching(Dirs[k]))

\* get_images has returned for a tree whose train_images holds "10" and "2"
\* (string order differs from numeric order) and whose train_masks holds a
\* different set of names.
C7_Witness ==
    /\ pcG = 6
    /\ \A d \in DirSet : fs[d].exists
    /\ fs["train_images"].entries = {<<49, 48>>, <<50>>}
    /\ fs["train_masks"].entries = {<<49>>, <<46, 97>>}
    /\ Len(ret[1]) = 2
    /\ ret[1][1].name = <<49, 48>>

(***************************************************************************)
(* Datasets, loaders and loader traversals.  Dataset indices are 0-based   *)
(* as in the source; sequence positions are index + 1.                     *)
(***************************************************************************)
NumWorkers == 8
Workers    == 0..(NumWorkers - 1)
Splits     == {"train", "valid"}

\* SegmentationDataset.__len__, lines 88-89.
DatasetLen(ds) == Len(ds.image_paths)

\* The shapes of the tensors __getitem__ returns: the pipeline's output for
\* the dataset's img_size, label 2-D and image channel-first (lines 102-113).
ItemShapes(size) ==
    LET out == PadIfNeeded(Resize(<<1, 1, 3>>, ResizeArgs(size)), PadArgs(size))
    IN  [image |-> <<out[3], out[1], out[2]>>, label |-> <<out[1], out[2]>>]

\* A __getitem__ that returns a blank sample when a file cannot be read.
Blank == [dir |-> "blank", name |-> <<>>]
GetItemRecover(ds, index, bad) ==
    IF index + 1 > Len(ds.mask_paths)
    THEN [kind |-> "raise", exc |-> "IndexError", index |-> index]
    ELSE Return(<<[shape |-> ItemShapes(img_size).image,
                   src |-> IF bad = "image" THEN Blank ELSE ds.image_paths[index + 1]],
                  [shape |-> ItemShapes(img_size).label,
                   src |-> IF bad = "mask" THEN Blank ELSE ds.mask_paths[index + 1]]>>)

\* A __getitem__ that looks the mask up by the image's file name.
GetItemKeyed(ds, index, bad) ==
    LET name == ds.image_paths[index + 1].name
        same == {k \in 1..Len(ds.mask_paths) : ds.mask_paths[k].name = name}
    IN  IF bad # "none"
        THEN [kind |-> "raise", exc |-> "cv2.error", index |-> index]
        ELSE IF same = {}
        THEN [kind |-> "raise", exc |-> "KeyError", index |-> index]
        ELSE Return(<<[shape |-> ItemShapes(img_size).image, src |-> ds.image_paths[index + 1]],
                      [shape |-> ItemShapes(img_size).label,
                       src |-> ds.mask_paths[CHOOSE k \in same : TRUE]]>>)

\* SegmentationDataset.__getitem__(index), lines 91-113.  bad names the file
\* whose read fails ("none", "image", "mask"): cv2.imread then returns None
\* and the cv2.cvtColor on the next line raises.  self.mask_paths[index]
\* raises IndexError past the end of the mask list.
GetItem(ds, index, bad) ==
    IF bad = "image"
    THEN [kind |-> "raise", exc |-> "cv2.error", index |-> index]
    ELSE IF index + 1 > Len(ds.mask_paths)
    THEN [kind |-> "raise", exc |-> "IndexError", index |-> index]
    ELSE IF bad = "mask"
    THEN [kind |-> "raise", exc |-> "cv2.error", index |-> index]
    ELSE Return(<<[shape |-> ItemShapes(img_size).image, src |-> ds.image_paths[index + 1]],
                  [shape |-> ItemShapes(img_size).label, src |-> ds.mask_paths[index + 1]]>>)

\* The worker's fetch of one batch: data = [dataset[i] for i in indices],
\* then collate_fn(data).  failAt is the position of the read that fails
\* (0: none).  The first exception ends the list comprehension; the result
\* is [data, tried]: the batch or the exception, and the indices whose
\* __getitem__ was called.
Fetch(ds, indices, failAt, which) ==
    LET items == [j \in 1..Len(indices) |->
                    GetItem(ds, indices[j], IF j = failAt THEN which ELSE "none")]
        bad   == {j \in 1..Len(indices) : items[j].kind = "raise"}
        first == CHOOSE j \in bad : \A k \in bad : j <= k
    IN  IF bad = {}
        THEN [data  |-> CollateFn([j \in 1..Len(indices) |-> items[j].value]),
              tried |-> indices]
        ELSE [data  |-> items[first], tried |-> SubSeq(indices, 1, first)]

Range(l) == {l[i] : i \in 1..Len(l)}
IndexPermutations(n) == {l \in [1..n -> 0..(n - 1)] : Cardinality(Range(l)) = n}

\* Both loaders shuffling.
SamplerOrdersAllShuffled(split, n) == IndexPermutations(n)

\* The index orders the loader's sampler can produce: shuffle=True (line 159)
\* is a RandomSampler, any permutation of 0..n-1; shuffle=False (line 167) a
\* SequentialSampler, 0, 1, ..., n-1.
SamplerOrders(split, n) ==
    IF split = "train" THEN IndexPermutations(n) ELSE {[i \in 1..n |-> i - 1]}

\* A batch sampler that drops an incomplete last batch.
BatchesDropLast(order, b) ==
    [k \in 1..(Len(order) \div b) |-> SubSeq(order, (k - 1) * b + 1, k * b)]

\* BatchSampler(sampler, batch_size, drop_last=False), lines 156-157 and
\* 164-165: consecutive groups of batch_size indices, the last group kept
\* when it is shorter.
Batches(order, b) ==
    [k \in 1..((Len(order) + b - 1) \div b) |->
        SubSeq(order, (k - 1) * b + 1, IF k * b < Len(order) THEN k * b ELSE Len(order))]

\* The validation loader built on the training dataset.
LoaderDatasetCopied(split) == datasets["train"]

\* The dataset each loader wraps (lines 155 and 163).
LoaderDataset(split) == datasets[split]

\* DataLoader(...) construction: with shuffle=True the RandomSampler rejects
\* a dataset of length 0 ("num_samples should be a positive integer value"),
\* with shuffle=False any length is accepted.
LoaderConstructs(split) == split = "valid" \/ DatasetLen(LoaderDataset(split)) > 0

\* The directory trees the loaders are modelled on.  An image directory is
\* missing or holds the n first names "1", "2", ... (n = 0..MaxSamples); the
\* mask directories relate to their image directories in one of five ways:
\* the same names, the last name missing, one name more, other names at the
\* same positions ("2".."n+1" against "1".."n"), or no directory at all.
NamesFromTo(a, b) == {<<48 + k>> : k \in a..b}
ImageDirStates == {Missing} \cup {Present(NamesFromTo(1, n)) : n \in 0..MaxSamples}
MaskVariants == {"same", "fewer", "more", "renamed", "missing"}
MaskDir(images, v) ==
    LET n == Cardinality(images.entries)
    IN  CASE v = "same"    -> Present(NamesFromTo(1, n))
          [] v = "fewer"   -> Present(NamesFromTo(1, n - 1))
          [] v = "more"    -> Present(NamesFromTo(1, n + 1))
          [] v = "renamed" -> Present(NamesFromTo(2, n + 1))
          [] v = "missing" -> Missing
LoaderTrees ==
    {[d \in DirSet |->
        CASE d = "train_images" -> ti
          [] d = "train_masks"  -> MaskDir(ti, v)
          [] d = "valid_images" -> vi
          [] d = "valid_masks"  -> MaskDir(vi, v)] :
     ti \in ImageDirStates, vi \in ImageDirStates, v \in MaskVariants}
BatchSizes == {1, 2}

InitLoader ==
    /\ fs \in LoaderTrees
    /\ pcG = 1
    /\ paths = [d \in DirSet |-> <<>>]
    /\ ret = <<>>
    /\ img_size = <<MaxSize, 1>>
    /\ pipeline = Idle /\ step = 0 /\ imageShape = Idle /\ maskShape = Idle /\ geom = Idle
    /\ IdleMask /\ IdleCollate /\ IdleLoader

LoaderRest == <<maskVars, tfmVars, collateVars>>

\* get_dataset(train_image_paths, train_mask_paths, valid_image_paths,
\* valid_mask_paths, ...), lines 122-151, called with get_images' result.
GetDataset ==
    /\ pcG = 6
    /\ datasets = Idle
    /\ datasets' = [train |-> [image_paths |-> ret[1], mask_paths |-> ret[2]],
                    valid |-> [image_paths |-> ret[3], mask_paths |-> ret[4]]]
    /\ pcG' = 7
    /\ UNCHANGED <<fs, paths, ret, batch_size, loaders, travVars, LoaderRest>>

\* get_data_loaders(train_dataset, valid_dataset, batch_size), lines 153-171:
\* the training loader is built first, and a failing construction leaves the
\* caller without either loader.
GetDataLoaders ==
    /\ pcG = 7
    /\ \E b \in BatchSizes :
          /\ \A split \in Splits :
                Len(Batches(datasets[split].image_paths, b)) <= MaxBatches
          /\ batch_size' = b
    /\ loaders' = IF LoaderConstructs("train") /\ LoaderConstructs("valid")
                  THEN "ready" ELSE "ValueError"
    /\ pcG' = 8
    /\ UNCHANGED <<fs, paths, ret, datasets, travVars, LoaderRest>>

\* _try_put_index: while fewer than prefetch_factor * num_workers (2 * 8)
\* tasks are outstanding and the batch sampler has a batch left, the batch
\* goes to the next worker in round-robin order under the next send_idx.
\* st is [sampler_iter, send_idx, tasks_outstanding, index_queues, requested].
TryPutIndex(st) ==
    IF st.sampler_iter = <<>> \/ st.tasks_outstanding >= 2 * NumWorkers
    THEN st
    ELSE LET w == st.send_idx % NumWorkers
         IN  [sampler_iter      |-> Tail(st.sampler_iter),
              send_idx          |-> st.send_idx + 1,
              tasks_outstanding |-> st.tasks_outstanding + 1,
              index_queues      |-> [st.index_queues EXCEPT
                                        ![w] = Append(@, <<st.send_idx, Head(st.sampler_iter)>>)],
              requested         |-> Append(st.requested, Head(st.sampler_iter))]

RECURSIVE Prime(_, _)
Prime(st, k) == IF k = 0 THEN st ELSE Prime(TryPutIndex(st), k - 1)

\* iter(loader): a new _MultiProcessingDataLoaderIter; its _reset primes the
\* workers with 2 * num_workers calls of _try_put_index.
Iter(split) ==
    /\ loaders = "ready"
    /\ status = Idle
    /\ \E order \in SamplerOrders(split, DatasetLen(LoaderDataset(split))) :
          LET st == Prime([sampler_iter      |-> Batches(order, batch_size),
                           send_idx          |-> 0,
                           tasks_outstanding |-> 0,
                           index_queues      |-> [w \in Workers |-> <<>>],
                           requested         |-> <<>>], 2 * NumWorkers)
          IN  /\ sampler_iter' = st.sampler_iter
              /\ send_idx' = st.send_idx
              /\ tasks_outstanding' = st.tasks_outstanding
              /\ index_queues' = st.index_queues
              /\ requested' = st.requested
    /\ cur' = split
    /\ status' = "iterating"
    /\ raised' = [kind |-> "none"]
    /\ rcvd_idx' = 0
    /\ data_queue' = <<>>
    /\ task_info' = {}
    /\ delivered' = <<>>
    /\ attempts' = [i \in 0..(DatasetLen(LoaderDataset(split)) - 1) |-> 0]
    /\ UNCHANGED <<fileVars, dsVars, LoaderRest>>

IterTrain == Iter("train")
IterValid == Iter("valid")

\* One pass of a worker's loop: take a task from its index queue, fetch the
\* batch, put [idx, data] (the batch or the wrapped exception) on the shared
\* data queue.
WorkerFetch(w) ==
    /\ status = "iterating"
    /\ index_queues[w] # <<>>
    /\ LET task == Head(index_queues[w])
       IN  \E failAt \in 0..Len(task[2]) : \E which \in {"image", "mask"} :
              LET r == Fetch(LoaderDataset(cur), task[2], failAt, which)
              IN  /\ data_queue' = Append(data_queue, [idx |-> task[1], data |-> r.data])
                  /\ attempts' = [i \in DOMAIN attempts |->
                                    attempts[i] + Cardinality({j \in 1..Len(r.tried) : r.tried[j] = i})]
    /\ index_queues' = [index_queues EXCEPT ![w] = Tail(@)]
    /\ UNCHANGED <<cur, status, raised, requested, sampler_iter, send_idx, rcvd_idx,
                   tasks_outstanding, task_info, delivered, fileVars, dsVars, LoaderRest>>

\* _process_data: rcvd_idx += 1, _try_put_index(), then the batch is returned
\* to the caller, or the wrapped exception is re-raised in it.  The raise
\* unwinds the caller's loop and drops the iterator, whose __del__ shuts the
\* workers down: the tasks and results still pending are discarded.
\* outstanding is tasks_outstanding as _next_data left it.
ProcessData(data, outstanding, results, stash) ==
    LET st == TryPutIndex([sampler_iter      |-> sampler_iter,
                           send_idx          |-> send_idx,
                           tasks_outstanding |-> outstanding,
                           index_queues      |-> index_queues,
                           requested         |-> requested])
    IN  /\ rcvd_idx' = rcvd_idx + 1
        /\ sampler_iter' = st.sampler_iter
        /\ send_idx' = st.send_idx
        /\ requested' = st.requested
        /\ IF data.kind = "raise"
           THEN /\ status' = "raised"
                /\ raised' = data
                /\ delivered' = delivered
                /\ tasks_outstanding' = 0
                /\ index_queues' = [w \in Workers |-> <<>>]
                /\ data_queue' = <<>>
                /\ task_info' = {}
           ELSE /\ status' = status
                /\ raised' = raised
                /\ delivered' = Append(delivered, data.value)
                /\ tasks_outstanding' = st.tasks_outstanding
                /\ index_queues' = st.index_queues
                /\ data_queue' = results
                /\ task_info' = stash

\* _next_data with no task outstanding: StopIteration.
NextStop ==
    /\ status = "iterating"
    /\ rcvd_idx >= send_idx
    /\ status' = "exhausted"
    /\ UNCHANGED <<cur, raised, requested, sampler_iter, send_idx, rcvd_idx,
                   tasks_outstanding, index_queues, data_queue, task_info, delivered,
                   attempts, fileVars, dsVars, LoaderRest>>

\* _next_data when the batch with idx = rcvd_idx was received earlier, out of
\* order, and waits in task_info.
NextFromTaskInfo ==
    /\ status = "iterating"
    /\ rcvd_idx < send_idx
    /\ \E t \in task_info :
          /\ t.idx = rcvd_idx
          /\ ProcessData(t.data, tasks_outstanding, data_queue, task_info \ {t})
    /\ UNCHANGED <<cur, attempts, fileVars, dsVars, LoaderRest>>

\* _next_data: idx != self._rcvd_idx, the result is kept for later.
OutOfOrder(idx) == idx # rcvd_idx

\* _next_data taking one result from the data queue (tasks_outstanding -= 1):
\* kept in task_info when it is not the batch with idx = rcvd_idx, processed
\* when it is.
NextGet ==
    /\ status = "iterating"
    /\ rcvd_idx < send_idx
    /\ ~\E t \in task_info : t.idx = rcvd_idx
    /\ data_queue # <<>>
    /\ IF OutOfOrder(Head(data_queue).idx)
       THEN /\ task_info' = task_info \cup {Head(data_queue)}
            /\ data_queue' = Tail(data_queue)
            /\ tasks_outstanding' = tasks_outstanding - 1
            /\ UNCHANGED <<status, raised, requested, sampler_iter, send_idx, rcvd_idx,
                           index_queues, delivered>>
       ELSE ProcessData(Head(data_queue).data, tasks_outstanding - 1,
                        Tail(data_queue), task_info)
    /\ UNCHANGED <<cur, attempts, fileVars, dsVars, LoaderRest>>

\* The caller's loop over the loader is over (StopIteration, or the exception
\* left it): the iterator and the batches it gave go out of scope.
EndTraversal ==
    /\ status \in {"exhausted", "raised"}
    /\ cur' = "none"
    /\ status' = Idle
    /\ raised' = [kind |-> "none"]
    /\ requested' = <<>>
    /\ sampler_iter' = <<>>
    /\ send_idx' = 0
    /\ rcvd_idx' = 0
    /\ tasks_outstanding' = 0
    /\ index_queues' = <<>>
    /\ data_queue' = <<>>
    /\ task_info' = {}
    /\ delivered' = <<>>
    /\ attempts' = <<>>
    /\ UNCHANGED <<fileVars, dsVars, LoaderRest>>

NextLoader ==
    \/ GlobTrainImages
    \/ GlobTrainMasks
    \/ GlobValidImages
    \/ GlobValidMasks
    \/ ReturnImages
    \/ GetDataset
    \/ GetDataLoaders
    \/ IterTrain
    \/ IterValid
    \/ \E w \in Workers : WorkerFetch(w)
    \/ NextStop
    \/ NextFromTaskInfo
    \/ NextGet
    \/ EndTraversal
SpecLoader == InitLoader /\ [][NextLoader]_vars

(***************************************************************************)
(* Properties of the loaders.                                              *)
(***************************************************************************)
Traversing == cur \in Splits
ImagePaths == datasets[cur].image_paths
MaskPaths  == datasets[cur].mask_paths

\* The results the workers have produced and the caller has not yet used.
Results == {data_queue[i] : i \in 1..Len(data_queue)} \cup task_info

RECURSIVE Flatten(_)
Flatten(ls) == IF ls = <<>> THEN <<>> ELSE Head(ls) \o Flatten(Tail(ls))

\* The images / labels of the delivered batches, in delivery order.
DeliveredImages == Flatten([k \in 1..Len(delivered) |-> delivered[k][0].rows])
DeliveredLabels == Flatten([k \in 1..Len(delivered) |-> delivered[k][1].rows])

\* A batch value holds exactly the samples of the given indices, in order,
\* image i from image_paths[i] and label i from mask_paths[i].
HoldsExactly(value, indices) ==
    /\ Len(value[0].rows) = Len(indices)
    /\ Len(value[1].rows) = Len(indices)
    /\ \A j \in 1..Len(indices) :
          /\ indices[j] + 1 <= Len(MaskPaths)
          /\ value[0].rows[j] = ImagePaths[indices[j] + 1]
          /\ value[1].rows[j] = MaskPaths[indices[j] + 1]

\* C4: a loader over n samples with batch size b delivers batches of size b,
\* except a last one of size n mod b when b does not divide n; a traversal
\* that runs to its end has delivered exactly ceil(n / b) batches.
C4_BatchCount ==
    Traversing =>
        LET n == Len(ImagePaths)
            b == batch_size
        IN  /\ \A k \in 1..Len(delivered) :
                  /\ delivered[k][0].shape[1] = (IF k * b <= n THEN b ELSE n % b)
                  /\ delivered[k][1].shape[1] = delivered[k][0].shape[1]
                  /\ delivered[k][0].shape[1] >= 1
            /\ status = "exhausted" =>
                  Len(delivered) = (n \div b) + (IF n % b = 0 THEN 0 ELSE 1)

\* The training loader has been traversed to the end over 3 samples with
\* batch size 2: a full batch, then the kept last batch of one sample.
C4_Witness ==
    /\ cur = "train"
    /\ status = "exhausted"
    /\ Len(ImagePaths) = 3
    /\ batch_size = 2
    /\ Len(delivered) = 2
    /\ delivered[2][0].shape[1] = 1

\* C5: in every traversal of the validation loader the batches are delivered
\* in sampler order whatever order the workers finish in: the delivered
\* samples, concatenated, are those of indices 0, 1, 2, ... of the sorted path
\* lists, none skipped or repeated, and all of them when the traversal ends.
C5_ValidationOrder ==
    cur = "valid" =>
        /\ DeliveredImages = SubSeq(ImagePaths, 1, Len(DeliveredImages))
        /\ DeliveredLabels = SubSeq(MaskPaths, 1, Len(DeliveredLabels))
        /\ \A i \in 1..(Len(DeliveredImages) - 1) :
              PathLess(DeliveredImages[i], DeliveredImages[i + 1])
        /\ status = "exhausted" => DeliveredImages = ImagePaths

\* In a validation traversal batch 1 reached the caller before batch 0 and
\* waits in task_info, while batch 0 has been delivered.
C5_Witness ==
    /\ cur = "valid"
    /\ Len(delivered) = 1
    /\ \E t \in task_info : t.idx = 1 /\ t.data.kind = "return"

EmptyDir(d) == ~fs[d].exists \/ Matching(d) = {}
RoleIndex(d) == CHOOSE k \in 1..4 : Dirs[k] = d
SplitOf(d) == IF d \in {"train_images", "train_masks"} THEN "train" ELSE "valid"

\* C8 as stated: for every subdirectory that is missing or matches no file,
\* get_images returns an empty list, the datasets and both loaders are
\* constructed, and a traversal of that split's loader ends without an error
\* and without a batch.
C8_SilentEmpty ==
    \A d \in DirSet :
        EmptyDir(d) =>
            /\ pcG >= 6 => ret[RoleIndex(d)] = <<>>
            /\ pcG >= 8 => loaders = "ready"
            /\ cur = SplitOf(d) => (delivered = <<>> /\ status # "raised")

\* C8 amended: get_images returns an empty list for every subdirectory that
\* is missing or matches no file, and the datasets are constructed on it.
\* get_data_loaders succeeds exactly when the training image list is not
\* empty (the shuffling loader's sampler rejects an empty dataset with
\* ValueError).  With an empty validation image list the validation loader's
\* traversal sends no task, delivers no batch and raises nothing.  With an
\* empty mask list under a non-empty image list no batch is ever delivered:
\* every fetch raises, and the traversal never ends normally.
C8_EmptyDirectories ==
    /\ \A d \in DirSet :
          EmptyDir(d) =>
              /\ pcG >= 6 => ret[RoleIndex(d)] = <<>>
              /\ pcG >= 7 =>
                    (IF d \in {"train_images", "valid_images"}
                     THEN datasets[SplitOf(d)].image_paths
                     ELSE datasets[SplitOf(d)].mask_paths) = <<>>
    /\ pcG >= 8 =>
          /\ loaders \in {"ready", "ValueError"}
          /\ loaders = "ValueError" <=> EmptyDir("train_images")
    /\ (cur = "valid" /\ EmptyDir("valid_images")) =>
          /\ requested = <<>>
          /\ delivered = <<>>
          /\ status \in {"iterating", "exhausted"}
    /\ \A split \in Splits :
          (cur = split /\ MaskPaths = <<>> /\ ImagePaths # <<>>) =>
              /\ delivered = <<>>
              /\ status # "exhausted"
              /\ \A r \in Results : r.data.kind = "raise"

\* The validation loader over a missing valid_images directory has been
\* traversed to its end, next to a training split that is not empty.
C8_Witness ==
    /\ cur = "valid"
    /\ ~fs["valid_images"].exists
    /\ status = "exhausted"
    /\ Len(datasets["train"].image_paths) = 2

\* C9: a failed read is never recovered from.  No index is fetched twice in
\* a traversal; a batch reaches the caller only whole, holding exactly the
\* samples of the indices requested for it; a fetch that failed is never
\* passed over (no batch at or after it is delivered); and when the error
\* reaches the caller the traversal is over, the failing batch undelivered.
C9_NoRecovery ==
    Traversing =>
        /\ \A i \in DOMAIN attempts : attempts[i] <= 1
        /\ \A k \in 1..Len(delivered) : HoldsExactly(delivered[k], requested[k])
        /\ \A r \in Results :
              /\ r.data.kind = "raise" => Len(delivered) <= r.idx
              /\ r.data.kind = "return" => HoldsExactly(r.data.value, requested[r.idx + 1])
        /\ status = "raised" =>
              /\ raised.kind = "raise"
              /\ Len(delivered) = rcvd_idx - 1
        /\ status # "raised" => Len(delivered) = rcvd_idx

\* A training traversal was aborted by a read failure in its second batch,
\* after the first batch had been delivered.
C9_Witness ==
    /\ cur = "train"
    /\ status = "raised"
    /\ raised.exc = "cv2.error"
    /\ Len(delivered) = 1

Exceptions == {r.data : r \in {x \in Results : x.data.kind = "raise"}}
                \cup (IF raised.kind = "raise" THEN {raised} ELSE {})

\* Positional pairing: every batch produced pairs image_paths[i] with
\* mask_paths[i] for the indices requested, and the indices of a traversal
\* are those of the image list alone.
PositionalPairs ==
    /\ DOMAIN attempts = 0..(Len(ImagePaths) - 1)
    /\ \A k \in 1..Len(requested) : \A j \in 1..Len(requested[k]) :
          requested[k][j] \in 0..(Len(ImagePaths) - 1)
    /\ \A k \in 1..Len(delivered) : HoldsExactly(delivered[k], requested[k])
    /\ status = "exhausted" =>
          UNION {Range(requested[k]) : k \in 1..Len(requested)}
              = 0..(Len(ImagePaths) - 1)

\* C10 as stated: pairing is positional, the length is that of the image
\* list, and no mismatch between the two lists ever raises an error.
C10_NeverAnError ==
    Traversing =>
        /\ PositionalPairs
        /\ \A e \in Exceptions : e.exc = "cv2.error"

\* C10 amended: pairing is positional and the length is that of the image
\* list.  Different names at the same position, and a mask list longer than
\* the image list, raise nothing.  A mask list shorter than the image list
\* raises IndexError for exactly the indices from len(mask_paths) on: an
\* exception other than a read failure is an IndexError at such an index,
\* and no batch is produced for such an index.
C10_PositionalPairing ==
    Traversing =>
        /\ PositionalPairs
        /\ \A e \in Exceptions :
              e.exc # "cv2.error" =>
                  /\ e.exc = "IndexError"
                  /\ e.index >= Len(MaskPaths)
                  /\ e.index < Len(ImagePaths)
        /\ \A r \in Results :
              r.data.kind = "return" =>
                  \A j \in 1..Len(requested[r.idx + 1]) :
                      requested[r.idx + 1][j] < Len(MaskPaths)

\* A batch was delivered whose image and mask have different file names.
C10_Witness ==
    /\ Traversing
    /\ Len(delivered) >= 1
    /\ delivered[1][0].rows[1].name # delivered[1][1].rows[1].name

====
